---------------------------- MODULE Spec2Model ----------------------------
(***************************************************************************)
(* Entry-index builder of enwiktionary-entries-by-language: the language   *)
(* name table loader (types.rs), the namespace classifier and the index    *)
(* emitter (main.rs).  Text is a sequence of bytes, each byte written as a *)
(* one-character string.                                                   *)
(***************************************************************************)
EXTENDS Integers, Sequences, FiniteSets, TLC

VARIABLES
    pc,       \* position in main_with_result
    source,   \* content of the language name table file
    table,    \* LanguageNameToCode: name -> LanguageCode
    err,      \* the Error main_with_result returns, or NoError
    parse_result, \* the item the dump reader yielded last (Ok(Page) or Err)
    pos,      \* number of items the dump reader has yielded
    index,    \* LanguagesToEntries: LanguageCode -> titles in push order
    diag,     \* lines written by log!
    todo,     \* language codes the emitter's iterator has not yielded yet
    cur,      \* language code of the emitter's current loop iteration
    pending,  \* sorted entries of cur not yet passed to writeln!
    buf,      \* lines held in the BufWriter of cur
    written,  \* per language code, the lines writeln! accepted
    files,    \* output files of this run: path -> lines on disk
    ioErrors  \* number of failed I/O operations during emission

vars == <<pc, source, table, err, parse_result, pos, index, diag, todo, cur, pending,
          buf, written, files, ioErrors>>

---------------------------------------------------------------------------
\* Bounds of the model

\* non-empty and empty lines of a table file
MaxLines == 3
\* pages the dump reader yields before it ends or fails
MaxPages == 3
\* lines a BufWriter holds before a write makes it flush
BufCap == 2

---------------------------------------------------------------------------
\* Generic helpers

TAB == "\t"
LF == "\n"
CR == "\r"
NUL == "NUL"

None == [some |-> FALSE]
Some(v) == [some |-> TRUE, val |-> v]

EmptyMap == [x \in {} |-> <<>>]

MapPut(m, k, v) == [x \in DOMAIN m \cup {k} |-> IF x = k THEN v ELSE m[x]]

\* index of the first occurrence of byte c in s, 0 when absent
RECURSIVE FindFrom(_, _, _)
FindFrom(s, c, i) ==
    IF i > Len(s) THEN 0
    ELSE IF s[i] = c THEN i
    ELSE FindFrom(s, c, i + 1)

Find(s, c) == FindFrom(s, c, 1)

\* str::split(c): the pieces between occurrences of c (always at least one)
RECURSIVE Split(_, _)
Split(s, c) ==
    LET i == Find(s, c) IN
    IF i = 0 THEN <<s>>
    ELSE <<SubSeq(s, 1, i - 1)>> \o Split(SubSeq(s, i + 1, Len(s)), c)

\* str::splitn(2, c): at most two pieces, cut at the first c
Splitn2(s, c) ==
    LET i == Find(s, c) IN
    IF i = 0 THEN <<s>>
    ELSE <<SubSeq(s, 1, i - 1), SubSeq(s, i + 1, Len(s))>>

\* str::lines(): pieces ended by LF, a final piece without LF kept unless
\* empty; the LF and a CR right before it are not part of the line
RECURSIVE Lines(_)
Lines(s) ==
    IF s = <<>> THEN <<>>
    ELSE LET i == Find(s, LF) IN
         IF i = 0 THEN <<s>>
         ELSE LET l == SubSeq(s, 1, i - 1)
                  line == IF l # <<>> /\ l[Len(l)] = CR
                          THEN SubSeq(l, 1, Len(l) - 1) ELSE l
              IN <<line>> \o Lines(SubSeq(s, i + 1, Len(s)))

---------------------------------------------------------------------------
\* LanguageCode (types.rs)

\* LanguageCode::MAX, the length of "aaa-aaa-aaa"
MAX == 11

\* variant: a code of exactly MAX bytes is refused
LanguageCodeNewOffByOne(code) ==
    IF Len(code) >= MAX THEN None
    ELSE Some([data |-> [i \in 1..MAX |->
                            IF i <= Len(code) THEN code[i] ELSE NUL],
               len |-> Len(code)])

\* LanguageCode::new: None when the code does not fit, else the bytes copied
\* into the zeroed buffer with their length
LanguageCodeNew(code) ==
    IF Len(code) > MAX THEN None
    ELSE Some([data |-> [i \in 1..MAX |->
                            IF i <= Len(code) THEN code[i] ELSE NUL],
               len |-> Len(code)])

\* Deref for LanguageCode: the first len bytes of data
Deref(lc) == SubSeq(lc.data, 1, lc.len)

---------------------------------------------------------------------------
\* Error (error.rs)

NoError == [kind |-> "none"]

TablePath == "names.tsv"
DumpPath == "pages.xml"
OutputDir == <<"o">>

InvalidNameToCodeFormat(line, n) ==
    [kind |-> "InvalidNameToCodeFormat", path |-> TablePath,
     line_number |-> n, line |-> line]

InvalidLanguageCode(line, n) ==
    [kind |-> "InvalidLanguageCode", path |-> TablePath,
     line_number |-> n, line |-> line]

DumpParsingError == [kind |-> "DumpParsingError"]

IoError(action, path) == [kind |-> "IoError", action |-> action, path |-> path]

---------------------------------------------------------------------------
\* LanguageNameToCode (types.rs)

\* variant: the errors carry the 0-based index of the line
ParseLineZeroBased(line, i) ==
    LET parts == Splitn2(line, TAB) IN
    IF Len(parts) = 2
    THEN LET code == LanguageCodeNew(parts[2]) IN
         IF code.some
         THEN [ok |-> TRUE, name |-> parts[1], code |-> code.val]
         ELSE [ok |-> FALSE, err |-> InvalidLanguageCode(line, i)]
    ELSE [ok |-> FALSE, err |-> InvalidNameToCodeFormat(line, i)]

\* the closure mapped over one enumerated non-empty line; i is 0-based
ParseLine(line, i) ==
    LET parts == Splitn2(line, TAB) IN
    IF Len(parts) = 2
    THEN LET code == LanguageCodeNew(parts[2]) IN
         IF code.some
         THEN [ok |-> TRUE, name |-> parts[1], code |-> code.val]
         ELSE [ok |-> FALSE, err |-> InvalidLanguageCode(line, i + 1)]
    ELSE [ok |-> FALSE, err |-> InvalidNameToCodeFormat(line, i + 1)]

\* variant: the first pair for a name is kept
RECURSIVE CollectFirstWins(_, _, _)
CollectFirstWins(lines, i, acc) ==
    IF i >= Len(lines) THEN [ok |-> TRUE, table |-> acc]
    ELSE IF lines[i + 1] = <<>> THEN CollectFirstWins(lines, i + 1, acc)
    ELSE LET r == ParseLine(lines[i + 1], i) IN
         IF r.ok
         THEN CollectFirstWins(lines, i + 1,
                               IF r.name \in DOMAIN acc THEN acc
                               ELSE MapPut(acc, r.name, r.code))
         ELSE [ok |-> FALSE, err |-> r.err]

\* enumerate, filter, map and collect into a Result: stops at the first Err,
\* a later pair for a name replaces the earlier one
RECURSIVE Collect(_, _, _)
Collect(lines, i, acc) ==
    IF i >= Len(lines) THEN [ok |-> TRUE, table |-> acc]
    ELSE IF lines[i + 1] = <<>> THEN Collect(lines, i + 1, acc)
    ELSE LET r == ParseLine(lines[i + 1], i) IN
         IF r.ok THEN Collect(lines, i + 1, MapPut(acc, r.name, r.code))
         ELSE [ok |-> FALSE, err |-> r.err]

FromTsvFile(text) == Collect(Lines(text), 0, EmptyMap)

\* LanguageNameToCode::get
Get(t, key) == IF key \in DOMAIN t THEN Some(t[key]) ELSE None


---------------------------------------------------------------------------
\* LanguagesToEntries (types.rs)

\* LanguagesToEntries::push: append to the list of the code, created if absent
Push(idx, code, title) ==
    IF code \in DOMAIN idx THEN [idx EXCEPT ![code] = Append(@, title)]
    ELSE MapPut(idx, code, <<title>>)

---------------------------------------------------------------------------
\* Namespace classifier (the body of the scan loop of make_entry_index)

Heading(level, text) == [kind |-> "Heading", level |-> level, text |-> text]
Template(nodes) == [kind |-> "Template", nodes |-> nodes]

Unrecognized(name, title) ==
    [msg |-> "language name not recognized", name |-> name, title |-> title]
NotFound(title) ==
    [msg |-> "valid language name not found in title", title |-> title]

\* variant: the scan also descends into the nodes nested in a template
RECURSIVE ClassifyMainNested(_, _, _, _)
ClassifyMainNested(nodes, title, t, st) ==
    IF nodes = <<>> THEN st
    ELSE LET node == Head(nodes)
             next ==
                 IF node.kind = "Template"
                 THEN ClassifyMainNested(node.nodes, title, t, st)
                 ELSE IF node.kind = "Heading" /\ node.level = 2
                 THEN LET language_code == Get(t, node.text) IN
                      IF language_code.some
                      THEN [st EXCEPT
                              !.index = Push(@, language_code.val, title)]
                      ELSE [st EXCEPT
                              !.diag = Append(@, Unrecognized(node.text, title))]
                 ELSE st
         IN ClassifyMainNested(Tail(nodes), title, t, next)

\* the loop over the top-level nodes of a Main page; st = [index, diag]
RECURSIVE ClassifyMain(_, _, _, _)
ClassifyMain(nodes, title, t, st) ==
    IF nodes = <<>> THEN st
    ELSE LET node == Head(nodes)
             next ==
                 IF node.kind = "Heading" /\ node.level = 2
                 THEN LET language_code == Get(t, node.text) IN
                      IF language_code.some
                      THEN [st EXCEPT
                              !.index = Push(@, language_code.val, title)]
                      ELSE [st EXCEPT
                              !.diag = Append(@, Unrecognized(node.text, title))]
                 ELSE st
         IN ClassifyMain(Tail(nodes), title, t, next)

\* variant: the last ':'-delimited segment instead of the second
LanguageNameInTitleLastSegment(title) ==
    LET segments == Split(title, ":") IN
    IF Len(segments) < 2 THEN None
    ELSE Some(Head(Split(segments[Len(segments)], "/")))

\* title.split(':').nth(1).and_then(|s| s.split('/').next())
LanguageNameInTitle(title) ==
    LET segments == Split(title, ":") IN
    IF Len(segments) < 2 THEN None
    ELSE Some(Head(Split(segments[2], "/")))

ClassifyByTitle(p, t, st) ==
    LET language_name == LanguageNameInTitle(p.title)
        language_code == IF language_name.some
                         THEN Get(t, language_name.val) ELSE None
    IN IF language_code.some
       THEN [st EXCEPT !.index = Push(@, language_code.val, p.title)]
       ELSE IF p.namespace = "Reconstruction"
       THEN [st EXCEPT !.diag = Append(@, NotFound(p.title))]
       ELSE st

\* variant: every namespace but Main is classified by its title
ClassifyEveryPrefixedTitle(p, t, st) ==
    IF p.namespace = "Main" THEN ClassifyMain(p.nodes, p.title, t, st)
    ELSE ClassifyByTitle(p, t, st)

Classify(p, t, st) ==
    IF p.namespace = "Main" THEN ClassifyMain(p.nodes, p.title, t, st)
    ELSE IF p.namespace = "Appendix" \/ p.namespace = "Reconstruction"
    THEN ClassifyByTitle(p, t, st)
    ELSE st

---------------------------------------------------------------------------
\* UniCase ordering and Vec::sort

Byte(c) ==
    CASE c = "." -> 46 [] c = "/" -> 47 [] c = ":" -> 58
      [] c = "A" -> 65 [] c = "B" -> 66 [] c = "L" -> 76 [] c = "M" -> 77
      [] c = "P" -> 80 [] c = "U" -> 85
      [] c = "a" -> 97 [] c = "b" -> 98 [] c = "r" -> 114

ToAsciiLowercase(b) == IF 65 <= b /\ b <= 90 THEN b + 32 ELSE b

Folded(s) == [i \in 1..Len(s) |-> ToAsciiLowercase(Byte(s[i]))]

\* lexicographic order of byte sequences
RECURSIVE BytesLess(_, _)
BytesLess(a, b) ==
    IF b = <<>> THEN FALSE
    ELSE IF a = <<>> THEN TRUE
    ELSE IF Head(a) # Head(b) THEN Head(a) < Head(b)
    ELSE BytesLess(Tail(a), Tail(b))

\* Ord for UniCase: compares the case-folded bytes
UniCaseLess(a, b) == BytesLess(Folded(a), Folded(b))

\* variant: x put before the elements equal to it
RECURSIVE InsertSortedBeforeEqual(_, _)
InsertSortedBeforeEqual(s, x) ==
    IF s = <<>> THEN <<x>>
    ELSE IF ~UniCaseLess(Head(s), x) THEN <<x>> \o s
    ELSE <<Head(s)>> \o InsertSortedBeforeEqual(Tail(s), x)

\* x put after every element that is not greater than it
RECURSIVE InsertSorted(_, _)
InsertSorted(s, x) ==
    IF s = <<>> THEN <<x>>
    ELSE IF UniCaseLess(x, Head(s)) THEN <<x>> \o s
    ELSE <<Head(s)>> \o InsertSorted(Tail(s), x)

\* Vec::sort: a stable sort
RECURSIVE Sort(_)
Sort(s) ==
    IF s = <<>> THEN <<>>
    ELSE InsertSorted(Sort(SubSeq(s, 1, Len(s) - 1)), s[Len(s)])

---------------------------------------------------------------------------
\* Output path (print_entries)

RECURSIVE RFindFrom(_, _, _)
RFindFrom(s, c, i) ==
    IF i = 0 THEN 0
    ELSE IF s[i] = c THEN i
    ELSE RFindFrom(s, c, i - 1)

\* index of the last occurrence of c in s, 0 when absent
RFind(s, c) == RFindFrom(s, c, Len(s))

\* Path::join
Join(dir, c) ==
    IF c # <<>> /\ c[1] = "/" THEN c
    ELSE IF dir # <<>> /\ dir[Len(dir)] = "/" THEN dir \o c
    ELSE dir \o <<"/">> \o c

\* the path up to the end of its last component: trailing separators and
\* trailing "." components are not components
RECURSIVE TrimTrailing(_)
TrimTrailing(p) ==
    IF Len(p) > 1 /\ p[Len(p)] = "/" THEN TrimTrailing(SubSeq(p, 1, Len(p) - 1))
    ELSE IF Len(p) > 1 /\ p[Len(p)] = "." /\ p[Len(p) - 1] = "/"
    THEN TrimTrailing(SubSeq(p, 1, Len(p) - 1))
    ELSE p

\* Path::file_stem of a file name
FileStem(name) ==
    LET dot == RFind(name, ".") IN
    IF name = <<".", ".">> THEN name
    ELSE IF dot <= 1 THEN name
    ELSE SubSeq(name, 1, dot - 1)

\* PathBuf::set_extension: the path cut after the file stem, then "." and ext
SetExtension(p, ext) ==
    LET t == TrimTrailing(p)
        slash == RFind(t, "/")
        name == SubSeq(t, slash + 1, Len(t))
    IN IF name = <<>> \/ name = <<".", ".">> THEN p
       ELSE SubSeq(t, 1, slash) \o FileStem(name) \o <<".">> \o ext

Txt == <<"t", "x", "t">>

PathFor(language_code) == SetExtension(Join(OutputDir, Deref(language_code)), Txt)

---------------------------------------------------------------------------
\* Inputs

\* language names: L and M are in the tables below, U is in none
NameL == <<"L">>
NameM == <<"M">>
NameU == <<"U">>

Code11 == <<"a", "a", "a", "-", "a", "a", "a", "-", "a", "a", "a">>

\* lines a table file is made of
LineSet ==
    { <<>>,
      <<"L", TAB, "x">>,
      <<"L", TAB, "y">>,
      <<"L">>,
      <<"L", TAB>>,
      <<TAB, "x">>,
      <<"L", TAB, "x", TAB, "y">>,
      <<"M", TAB, "y", CR>>,
      <<"M", TAB>> \o Code11,
      <<"M", TAB>> \o Code11 \o <<"a">> }

\* the file made of the lines ls, each ended by LF, the last one only if nl
RECURSIVE JoinLines(_, _)
JoinLines(ls, nl) ==
    IF ls = <<>> THEN <<>>
    ELSE IF Len(ls) = 1 THEN ls[1] \o (IF nl THEN <<LF>> ELSE <<>>)
    ELSE ls[1] \o <<LF>> \o JoinLines(Tail(ls), nl)

\* a file never ends in a CR without LF
TableSources ==
    { JoinLines(ls, nl) :
        ls \in UNION { [1..k -> LineSet] : k \in 0..MaxLines },
        nl \in BOOLEAN } \
    { s \in { JoinLines(ls, FALSE) :
                ls \in UNION { [1..k -> LineSet] : k \in 1..MaxLines } } :
        s # <<>> /\ s[Len(s)] = CR }

\* the tables of the whole-run specification: two codes that differ only
\* after a '.', two plain codes, and a file whose last line has no tab
RunSources ==
    { <<"L", TAB, "x", LF, "M", TAB, "x", ".", "a", LF>>,
      <<"L", TAB, "x", LF, LF, "M", TAB, "y">>,
      <<"L", TAB, "x", LF, "M">> }

TitleB == <<"b">>
TitleUpperA == <<"A">>
TitleLowerA == <<"a">>

MainPage(title, nodes) ==
    [namespace |-> "Main", title |-> title, nodes |-> nodes]
TitlePage(namespace, title) ==
    [namespace |-> namespace, title |-> title,
     nodes |-> <<Heading(2, NameL)>>]

Pages ==
    { MainPage(TitleB, <<Heading(2, NameL), Heading(2, NameM)>>),
      MainPage(TitleUpperA,
               <<Heading(3, NameM), Heading(2, NameL),
                 Template(<<Heading(2, NameM)>>), Heading(2, NameU)>>),
      MainPage(TitleLowerA, <<Heading(2, NameL), Heading(2, NameL)>>),
      MainPage(TitleLowerA,
               <<Heading(1, NameL), Template(<<Heading(2, NameL)>>)>>),
      TitlePage("Appendix", <<"P", ":", "L", "/", "r">>),
      TitlePage("Appendix", <<"P", ":", "U", "/", "r">>),
      TitlePage("Appendix", <<"P">>),
      TitlePage("Reconstruction", <<"P", ":", "M", ":", "L", "/", "r">>),
      TitlePage("Reconstruction", <<"P", ":", "U", "/", "L">>),
      TitlePage("Reconstruction", <<"P", "/", "L">>),
      TitlePage("Talk", <<"P", ":", "L", "/", "r">>) }

\* items of the dump reader
NoItem == [kind |-> "none"]
OkPage(p) == [kind |-> "Ok", page |-> p]
ErrItem == [kind |-> "Err"]

---------------------------------------------------------------------------
\* main_with_result

Start(p, src) ==
    /\ pc = p
    /\ source = src
    /\ table = EmptyMap
    /\ err = NoError
    /\ parse_result = NoItem
    /\ pos = 0
    /\ index = EmptyMap
    /\ diag = <<>>
    /\ todo = {}
    /\ cur = None
    /\ pending = <<>>
    /\ buf = <<>>
    /\ written = EmptyMap
    /\ files = EmptyMap
    /\ ioErrors = 0

Init == \E src \in RunSources : Start("mkdir", src)

Fail(e) ==
    /\ pc' = "failed"
    /\ err' = e

\* std::fs::create_dir_all(output_dir)
CreateOutputDir ==
    /\ pc = "mkdir"
    /\ \/ pc' = "load" /\ err' = err
       \/ Fail(IoError("create output directory", OutputDir))
    /\ UNCHANGED <<source, table, parse_result, pos, index, diag, todo, cur, pending,
                   buf, written, files, ioErrors>>

\* LanguageNameToCode::from_tsv_file
LoadTable ==
    /\ pc = "load"
    /\ \/ Fail(IoError("read from", TablePath)) /\ table' = table
       \/ LET r == FromTsvFile(source) IN
          IF r.ok THEN pc' = "open" /\ table' = r.table /\ err' = err
          ELSE Fail(r.err) /\ table' = table
    /\ UNCHANGED <<source, parse_result, pos, index, diag, todo, cur, pending, buf,
                   written, files, ioErrors>>

\* make_entry_index: File::open of the dump
OpenDump ==
    /\ pc = "open"
    /\ \/ pc' = "scan" /\ err' = err
       \/ Fail(IoError("open", DumpPath))
    /\ UNCHANGED <<source, table, parse_result, pos, index, diag, todo, cur, pending,
                   buf, written, files, ioErrors>>

\* one iteration of the scan loop over a page the dump reader yields
ScanPage ==
    /\ pc = "scan"
    /\ pos < MaxPages
    /\ \E p \in Pages :
          LET st == Classify(p, table, [index |-> index, diag |-> diag]) IN
          /\ parse_result' = OkPage(p)
          /\ index' = st.index
          /\ diag' = st.diag
    /\ pos' = pos + 1
    /\ UNCHANGED <<pc, source, table, err, todo, cur, pending, buf, written,
                   files, ioErrors>>

\* variant: a failed item is skipped and the scan goes on
ScanErrorSkipped ==
    /\ pc = "scan"
    /\ pos < MaxPages
    /\ pos' = pos + 1
    /\ parse_result' = ErrItem
    /\ UNCHANGED <<pc, err, source, table, index, diag, todo, cur, pending,
                   buf, written, files, ioErrors>>

\* the dump reader yields an error: parse_result? returns it
ScanError ==
    /\ pc = "scan"
    /\ pos < MaxPages
    /\ pos' = pos + 1
    /\ parse_result' = ErrItem
    /\ Fail(DumpParsingError)
    /\ UNCHANGED <<source, table, index, diag, todo, cur, pending, buf,
                   written, files, ioErrors>>

\* the dump reader ends: Ok(languages_to_entries), moved into print_entries
ScanEnd ==
    /\ pc = "scan"
    /\ pc' = "emit"
    /\ todo' = DOMAIN index
    /\ UNCHANGED <<source, table, err, parse_result, pos, index, diag, cur, pending,
                   buf, written, files, ioErrors>>

\* lines moved from the buffer to the file by a flush that fails
Flushed(ok) == IF ok THEN {Len(buf)} ELSE 0..(Len(buf) - 1)

\* print_entries: the iterator yields a code (in hash order), the path is
\* computed, the file created and the entries sorted
EmitCreate ==
    /\ pc = "emit"
    /\ ~cur.some
    /\ \E language_code \in todo :
          LET path == PathFor(language_code) IN
          \/ /\ files' = MapPut(files, path, <<>>)
             /\ cur' = Some(language_code)
             /\ todo' = todo \ {language_code}
             /\ pending' = Sort(index[language_code])
             /\ written' = MapPut(written, language_code, <<>>)
             /\ UNCHANGED <<pc, err, ioErrors>>
          \/ /\ Fail(IoError("create", path))
             /\ ioErrors' = ioErrors + 1
             /\ UNCHANGED <<files, cur, todo, pending, written>>
    /\ UNCHANGED <<source, table, parse_result, pos, index, diag, buf>>

\* print_entries: writeln! of the next entry into the BufWriter, which
\* flushes first when the line does not fit
EmitWriteln ==
    /\ pc = "emit"
    /\ cur.some
    /\ pending # <<>>
    /\ LET path == PathFor(cur.val) IN
       IF Len(buf) + 1 > BufCap
       THEN \E ok \in BOOLEAN : \E k \in Flushed(ok) :
              /\ files' = [files EXCEPT ![path] = @ \o SubSeq(buf, 1, k)]
              /\ IF ok
                 THEN /\ buf' = <<Head(pending)>>
                      /\ written' = [written EXCEPT ![cur.val] =
                                         Append(@, Head(pending))]
                      /\ pending' = Tail(pending)
                      /\ UNCHANGED <<pc, err, ioErrors>>
                 ELSE /\ Fail(IoError("write to", path))
                      /\ ioErrors' = ioErrors + 1
                      /\ buf' = SubSeq(buf, k + 1, Len(buf))
                      /\ UNCHANGED <<written, pending>>
       ELSE /\ buf' = Append(buf, Head(pending))
            /\ written' = [written EXCEPT ![cur.val] = Append(@, Head(pending))]
            /\ pending' = Tail(pending)
            /\ UNCHANGED <<pc, err, ioErrors, files>>
    /\ UNCHANGED <<source, table, parse_result, pos, index, diag, todo, cur>>

\* print_entries: end of a loop iteration, the BufWriter is dropped; its
\* drop flushes the buffer and discards the result
EmitDrop ==
    /\ pc = "emit"
    /\ cur.some
    /\ pending = <<>>
    /\ LET path == PathFor(cur.val) IN
       IF buf = <<>> THEN UNCHANGED <<files, ioErrors>>
       ELSE \E ok \in BOOLEAN : \E k \in Flushed(ok) :
              /\ files' = [files EXCEPT ![path] = @ \o SubSeq(buf, 1, k)]
              /\ ioErrors' = IF ok THEN ioErrors ELSE ioErrors + 1
    /\ buf' = <<>>
    /\ cur' = None
    /\ UNCHANGED <<pc, source, table, err, parse_result, pos, index, diag, todo,
                   pending, written>>

\* print_entries: the iterator is exhausted, Ok(())
EmitReturn ==
    /\ pc = "emit"
    /\ ~cur.some
    /\ todo = {}
    /\ pc' = "done"
    /\ UNCHANGED <<source, table, err, parse_result, pos, index, diag, todo, cur,
                   pending, buf, written, files, ioErrors>>

Next ==
    \/ CreateOutputDir
    \/ LoadTable
    \/ OpenDump
    \/ ScanPage
    \/ ScanError
    \/ ScanEnd
    \/ EmitCreate
    \/ EmitWriteln
    \/ EmitDrop
    \/ EmitReturn

Spec == Init /\ [][Next]_vars

\* from_tsv_file applied to every table file within the bounds
InitLoad == \E src \in TableSources : Start("load", src)

SpecLoad == InitLoad /\ [][LoadTable]_vars

---------------------------------------------------------------------------
\* Properties of the scan (make_entry_index)

Range(s) == { s[i] : i \in 1..Len(s) }

\* the titles under code c in idx, none when c is not a key
Entries(idx, c) == IF c \in DOMAIN idx THEN idx[c] ELSE <<>>

\* a scan step that bound page p
Scanned(p) == pos' = pos + 1 /\ parse_result' = OkPage(p)

ScanReturnedOk ==
    \/ pc \in {"emit", "done"}
    \/ pc = "failed" /\ err.kind = "IoError"
                     /\ err.action \in {"create", "write to"}

\* C1: once the dump reader has yielded an error the run has ended with
\* that error and no output file exists, whatever was pushed before; after
\* it nothing is classified; and an output file exists only when the whole
\* scan has returned successfully.
DumpErrorAbortsBeforeOutput ==
    /\ [](parse_result = ErrItem =>
            pc = "failed" /\ err = DumpParsingError /\ DOMAIN files = {})
    /\ [](DOMAIN files # {} => ScanReturnedOk)
    /\ [][parse_result = ErrItem =>
             UNCHANGED <<parse_result, pos, index, diag, files>>]_vars
    /\ [][files' # files => pc = "emit"]_vars

\* the second item of the dump fails after the first page pushed
DumpErrorAfterPushes ==
    /\ parse_result = ErrItem
    /\ pos = 2
    /\ DOMAIN index # {}
    /\ pc = "failed"

IsLevel2(node) == node.kind = "Heading" /\ node.level = 2

\* number of top-level level-2 headings of nodes whose text maps to code c
HeadingsFor(nodes, c) ==
    Cardinality({ i \in 1..Len(nodes) :
                    /\ IsLevel2(nodes[i])
                    /\ nodes[i].text \in DOMAIN table
                    /\ table[nodes[i].text] = c })

Repeat(x, n) == [i \in 1..n |-> x]

\* the diagnostics of the top-level level-2 headings of p that are not in
\* the table, in page order
UnknownHeadings(p) ==
    LET unknown == SelectSeq(p.nodes,
                       LAMBDA node : IsLevel2(node)
                                     /\ node.text \notin DOMAIN table)
    IN [i \in 1..Len(unknown) |-> Unrecognized(unknown[i].text, p.title)]

\* C2: a Main page pushes its title once per top-level level-2 heading
\* whose text is in the table (twice when two resolve to one code), logs
\* exactly one diagnostic per top-level level-2 heading that is not, in
\* order, and does nothing for other levels and nested headings.
MainPageClassification ==
    [][\A p \in Pages :
         Scanned(p) /\ p.namespace = "Main" =>
           /\ DOMAIN index' =
                 DOMAIN index \cup { c \in { table[n] : n \in DOMAIN table } :
                                       HeadingsFor(p.nodes, c) > 0 }
           /\ \A c \in DOMAIN index' :
                 index'[c] = Entries(index, c)
                               \o Repeat(p.title, HeadingsFor(p.nodes, c))
           /\ diag' = diag \o UnknownHeadings(p)]_vars

\* a Main page with a known, an unknown, a level-3 and a nested level-2
\* heading was classified, and one with two headings of one language
MainPageClassified ==
    /\ parse_result.kind = "Ok"
    /\ parse_result.page.namespace = "Main"
    /\ \E i \in 1..Len(parse_result.page.nodes) :
          parse_result.page.nodes[i].kind = "Template"
    /\ \E i \in 1..Len(diag) : diag[i] = Unrecognized(NameU, TitleUpperA)
    /\ \E c \in DOMAIN index :
          index[c] = <<TitleLowerA, TitleLowerA, TitleUpperA>>

\* the part of the title before the first '/' of its second ':'-delimited
\* segment
Candidate(title) ==
    LET colon == Find(title, ":")
        rest == SubSeq(title, colon + 1, Len(title))
        colon2 == Find(rest, ":")
        segment == IF colon2 = 0 THEN rest ELSE SubSeq(rest, 1, colon2 - 1)
        slash == Find(segment, "/")
    IN IF colon = 0 THEN None
       ELSE Some(IF slash = 0 THEN segment ELSE SubSeq(segment, 1, slash - 1))

\* C3: an Appendix or Reconstruction page pushes exactly one association
\* (code, full title) when its candidate language name is in the table and
\* nothing otherwise; a diagnostic is logged iff nothing was pushed and the
\* namespace is Reconstruction.
TitlePageClassification ==
    [][\A p \in Pages :
         Scanned(p) /\ p.namespace \in {"Appendix", "Reconstruction"} =>
           LET name == Candidate(p.title)
               known == name.some /\ name.val \in DOMAIN table
           IN /\ known => index' = [c \in DOMAIN index \cup {table[name.val]} |->
                                       IF c = table[name.val]
                                       THEN Append(Entries(index, c), p.title)
                                       ELSE index[c]]
              /\ ~known => index' = index
              /\ diag' = IF ~known /\ p.namespace = "Reconstruction"
                         THEN Append(diag, NotFound(p.title))
                         ELSE diag]_vars

\* a Reconstruction title with two ':' was pushed under the language of its
\* second segment, and an unmatched Reconstruction title was logged
TitlePageClassified ==
    /\ NameM \in DOMAIN table
    /\ table[NameM] \in DOMAIN index
    /\ index[table[NameM]] = << <<"P", ":", "M", ":", "L", "/", "r">> >>
    /\ diag = << NotFound(<<"P", "/", "L">>) >>
    /\ parse_result.kind = "Ok"
    /\ parse_result.page.namespace = "Appendix"
    /\ parse_result.page.title = <<"P", ":", "U", "/", "r">>

\* C9: a page of any other namespace leaves the entry index and the
\* diagnostics unchanged, whatever its title and headings.
OtherNamespaceIgnored ==
    [][\A p \in Pages :
         Scanned(p)
         /\ p.namespace \notin {"Main", "Appendix", "Reconstruction"} =>
           index' = index /\ diag' = diag]_vars

\* a Talk page, titled like an appendix of a known language and holding a
\* level-2 heading of a known language, was scanned
OtherNamespaceScanned ==
    /\ parse_result.kind = "Ok"
    /\ parse_result.page.namespace = "Talk"
    /\ Candidate(parse_result.page.title).val \in DOMAIN table
    /\ \E i \in 1..Len(parse_result.page.nodes) :
          /\ IsLevel2(parse_result.page.nodes[i])
          /\ parse_result.page.nodes[i].text \in DOMAIN table
    /\ index = EmptyMap
    /\ pos = 1

---------------------------------------------------------------------------
\* Properties of the emission (print_entries)

\* the loop iteration of print_entries for code c has run to its end
Emitted(c) == c \in DOMAIN written /\ cur # Some(c)

Count(s, x) == Cardinality({ i \in 1..Len(s) : s[i] = x })

\* the elements of s equal to x under case folding, in their order in s
FoldEqual(s, x) == SelectSeq(s, LAMBDA y : Folded(y) = Folded(x))

\* C4: the lines written for a code are a permutation of the titles pushed
\* under it (duplicates and casing kept), in case-insensitive order, with
\* titles equal under case folding in push order.
EmittedLinesStablySorted ==
    \A c \in DOMAIN written :
        Emitted(c) =>
          LET lines == written[c]
              pushed == index[c]
          IN /\ Len(lines) = Len(pushed)
             /\ \A x \in Range(pushed) : Count(lines, x) = Count(pushed, x)
             /\ \A i, j \in 1..Len(lines) :
                   i < j => ~BytesLess(Folded(lines[j]), Folded(lines[i]))
             /\ \A x \in Range(pushed) :
                   FoldEqual(lines, x) = FoldEqual(pushed, x)

\* pushes b, A, a, a under one code were written as A, a, a, b
PushOrderKeptAmongEqual ==
    \E c \in DOMAIN written :
        /\ Emitted(c)
        /\ index[c] = <<TitleB, TitleUpperA, TitleLowerA, TitleLowerA>>
        /\ written[c] = <<TitleUpperA, TitleLowerA, TitleLowerA, TitleB>>

\* C8: after a successful emission the output files are exactly the paths
\* <output_directory>/<code text>.txt of the codes of the index, one per
\* code, each holding only titles pushed under its code.
OneFilePerLanguageCode ==
    pc = "done" =>
      LET path(c) == OutputDir \o <<"/">> \o Deref(c) \o <<".">> \o Txt IN
      /\ DOMAIN files = { path(c) : c \in DOMAIN index }
      /\ Cardinality(DOMAIN files) = Cardinality(DOMAIN index)
      /\ \A c \in DOMAIN index :
            path(c) \in DOMAIN files
            /\ Range(files[path(c)]) \subseteq Range(index[c])

\* C10: emission returns success only if no creation of a file and no
\* write to one failed, the flush of a writer being released included.
EmitSuccessMeansAllWritten ==
    pc = "done" => ioErrors = 0

---------------------------------------------------------------------------
\* Properties of the table loader (from_tsv_file)

\* the table file was read and the load has returned
Loaded == pc # "load" /\ ~(pc = "failed" /\ err.kind = "IoError")

HasTab(line) == Find(line, TAB) # 0
NameOf(line) == SubSeq(line, 1, Find(line, TAB) - 1)
CodeOf(line) == SubSeq(line, Find(line, TAB) + 1, Len(line))

TooLong(line) == HasTab(line) /\ Len(CodeOf(line)) > 11
Offending(line) == line # <<>> /\ (~HasTab(line) \/ TooLong(line))

\* 1-based numbers of the offending lines of the file
OffendingLines == { i \in 1..Len(Lines(source)) : Offending(Lines(source)[i]) }

Min(S) == CHOOSE x \in S : \A y \in S : x <= y
Max(S) == CHOOSE x \in S : \A y \in S : x >= y

\* 1-based numbers of the non-empty lines whose name is name
LinesNaming(name) ==
    { i \in 1..Len(Lines(source)) :
        /\ Lines(source)[i] # <<>>
        /\ HasTab(Lines(source)[i])
        /\ NameOf(Lines(source)[i]) = name }

\* names on the lines of the model and one on none
Names == { NameOf(l) : l \in { l \in LineSet : HasTab(l) } } \cup {NameU}

\* C5: when every non-empty line has a tab and a code of at most 11 bytes,
\* load succeeds and get(name) is the code of the last non-empty line whose
\* text before the first tab is name, and nothing for a name on no line.
LoadLastWriteWins ==
    Loaded /\ OffendingLines = {} =>
      /\ pc = "open"
      /\ err = NoError
      /\ \A name \in Names \cup DOMAIN table :
            IF LinesNaming(name) = {} THEN Get(table, name) = None
            ELSE /\ Get(table, name).some
                 /\ Deref(Get(table, name).val) =
                      CodeOf(Lines(source)[Max(LinesNaming(name))])

\* a name on the first and the third line, an empty line between them
LoadedDuplicateName ==
    /\ pc = "open"
    /\ Len(Lines(source)) = 3
    /\ Lines(source)[2] = <<>>
    /\ LinesNaming(NameL) = {1, 3}
    /\ CodeOf(Lines(source)[1]) # CodeOf(Lines(source)[3])
    /\ Deref(table[NameL]) = <<"y">>

\* line n of the file starts at byte p of it and is the text there
LineAt(n, p, line) ==
    /\ p = 1 \/ source[p - 1] = LF
    /\ Cardinality({ q \in 1..(p - 1) : source[q] = LF }) = n - 1
    /\ SubSeq(source, p, p + Len(line) - 1) = line
    /\ \/ p + Len(line) > Len(source)
       \/ source[p + Len(line)] = LF
       \/ /\ p + Len(line) < Len(source)
          /\ source[p + Len(line)] = CR
          /\ source[p + Len(line) + 1] = LF

\* C6: a non-empty line without a tab makes load return no table; when it
\* is the first offending line, the error is the malformed-line error with
\* that line and its 1-based number in the file, empty lines counted.
LoadMalformedLine ==
    Loaded /\ (\E i \in OffendingLines : ~HasTab(Lines(source)[i])) =>
      /\ pc = "failed"
      /\ table = EmptyMap
      /\ ~HasTab(Lines(source)[Min(OffendingLines)]) =>
            /\ err = InvalidNameToCodeFormat(Lines(source)[Min(OffendingLines)],
                                             Min(OffendingLines))
            /\ \E p \in 1..Len(source) :
                  LineAt(err.line_number, p, err.line)

\* a malformed third line after a valid line and an empty line
LoadFailedOnThirdLine ==
    /\ pc = "failed"
    /\ err.kind = "InvalidNameToCodeFormat"
    /\ err.line_number = 3
    /\ Lines(source)[2] = <<>>
    /\ HasTab(Lines(source)[1])

\* every line of the file up to the first offending one
Processed ==
    { i \in 1..Len(Lines(source)) :
        /\ Lines(source)[i] # <<>>
        /\ HasTab(Lines(source)[i])
        /\ \A j \in OffendingLines : i <= j }

\* C7 as stated: every non-empty line whose text after the first tab is
\* longer than 11 bytes makes load fail with the invalid-language-code
\* error carrying that line and its number.
LoadEveryLongCodeReported ==
    Loaded =>
      \A i \in 1..Len(Lines(source)) :
          TooLong(Lines(source)[i]) =>
            /\ pc = "failed"
            /\ err = InvalidLanguageCode(Lines(source)[i], i)

\* C7 amended: construction fails iff the input is longer than 11 bytes and
\* a code of at most 11 bytes reads back as the same bytes; the first
\* offending line of the file, when its code is longer than 11 bytes, makes
\* load fail with the invalid-language-code error carrying that line and
\* its 1-based number.
LoadFirstLongCodeReported ==
    Loaded =>
      /\ \A i \in Processed :
            LET code == CodeOf(Lines(source)[i]) IN
            /\ Len(code) > 11 <=>
                  /\ pc = "failed"
                  /\ err = InvalidLanguageCode(Lines(source)[i], i)
            /\ Len(code) <= 11 =>
                  /\ LanguageCodeNew(code).some
                  /\ Deref(LanguageCodeNew(code).val) = code
                  /\ pc = "open" /\ i = Max(LinesNaming(NameOf(Lines(source)[i])))
                       => Deref(table[NameOf(Lines(source)[i])]) = code
      /\ err.kind = "InvalidLanguageCode" =>
            /\ err.line_number = Min(OffendingLines)
            /\ TooLong(err.line)

\* a code of 12 bytes on the third line, after a code of exactly 11 bytes
\* that was accepted
LoadFailedOnLongCode ==
    /\ pc = "failed"
    /\ err.kind = "InvalidLanguageCode"
    /\ err.line_number = 3
    /\ Len(CodeOf(err.line)) = 12
    /\ Len(CodeOf(Lines(source)[1])) = 11
    /\ 1 \in Processed

=============================================================================
